---- MODULE Spec2Model ----
(***************************************************************************)
(* Model of server/index.js of mind-mentor: the Express middleware stack   *)
(* (body parser, CORS filter, global rate limiter, AI rate limiter, health *)
(* handlers, route groups, error-handling middleware) and the per-key      *)
(* window counters of the two express-rate-limit instances.                *)
(*                                                                         *)
(* One request is followed through the stack at a time.  Every layer of    *)
(* the stack from the CORS filter up to the entry of a route group runs    *)
(* without yielding to another request (the limiter's store is in memory), *)
(* so a request is one step from its arrival to either its response or     *)
(* its suspension inside a route group; what the route group does next is  *)
(* a second step.                                                          *)
(***************************************************************************)
EXTENDS Integers, Sequences, FiniteSets, TLC

\* ------------------------------------------------------------------ bounds

\* Number of half-window clock steps the model takes.
MaxTicks == 3
\* How many checks beyond its limit a key still sends inside one window.
MaxOver == 2
\* Global hits one key may have while another key is the busy one.
MaxOther == 1
\* Global hits of a key in the specifications that stay below the limits.
MaxFew == 3
\* Longest forwarded-for chain.
MaxChain == 2

\* --------------------------------------------------------------- constants

\* windowMs: 15 * 60 * 1000
WindowMs == 15 * 60 * 1000
\* max: 100
GlobalMax == 100
GlobalMessage == "Too many requests from this IP, please try again after 15 minutes"

\* aiRateLimiter is imported from ./services/aiService.js; its configuration
\* is a lower ceiling over the same window.
AIWindowMs == WindowMs
AIMax == 2
AIMessage == "Too many AI requests"

\* The clock advances in half windows.
TickMs == WindowMs \div 2

\* app.set('trust proxy', 1)
TrustHops == 1

Keys == {"ipA", "ipB"}

\* What an address field can hold: the clients, the reverse proxy, and a
\* token that is no address.
Addrs == Keys \cup {"proxy", "unknown"}

\* The origin option of cors().
AllowedOrigins ==
  { "https://mind-mentor-pearl.vercel.app",
    "https://mind-mentor.kartiklabhshetwar.me",
    "http://localhost:3000",
    "https://www.mind-mentor.ink",
    "https://mind-mentor.ink" }

\* No Origin header.
NoOrigin == ""

\* A path is its sequence of segments: "/" is << >>, "/pdf/chat" is <<"pdf","chat">>.
Root == << >>

Shape(method, path, bodyOk) ==
  [method |-> method, path |-> path, bodyOk |-> bodyOk, origin |-> NoOrigin]

From(origin, shape) == [shape EXCEPT !.origin = origin]

\* The requests clients send: a method, a path, and whether the body parses.
Requests ==
  { Shape("GET", Root, TRUE),
    Shape("GET", <<"health">>, TRUE),
    Shape("POST", <<"generate-plan">>, TRUE),
    Shape("POST", <<"curate-resources">>, TRUE),
    Shape("GET", <<"pdf", "chat">>, TRUE),
    Shape("GET", <<"other">>, TRUE),
    Shape("POST", Root, TRUE),
    Shape("OPTIONS", <<"generate-plan">>, TRUE),
    Shape("POST", <<"generate-plan">>, FALSE),
    Shape("OPTIONS", Root, FALSE) }

\* The Origin headers tried: none, an allowed one, the same in capitals, and
\* one that is not allowed.
TestOrigins ==
  { NoOrigin, "http://localhost:3000", "HTTP://LOCALHOST:3000", "https://evil.example" }

\* The requests sent to try the CORS filter.
CorsRequests ==
  { From(o, sh) :
      o \in TestOrigins,
      sh \in { Shape("GET", Root, TRUE),
               Shape("POST", <<"generate-plan">>, TRUE),
               Shape("OPTIONS", <<"generate-plan">>, TRUE),
               Shape("POST", <<"generate-plan">>, FALSE) } }

\* The requests sent to see the failure responses of the stack itself.
FailRequests ==
  { Shape("GET", Root, TRUE),
    Shape("POST", <<"other">>, FALSE) }

\* The X-Forwarded-For chains tried: none, and every chain of up to
\* MaxChain entries.
Chains == UNION { [1..n -> Keys \cup {"unknown"}] : n \in 0..MaxChain }

\* The addresses connections come from.
Peers == {"ipA", "proxy"}

\* The requests sent to see which layer answers.
DispatchRequests ==
  { Shape("GET", Root, TRUE),
    Shape("HEAD", Root, TRUE),
    Shape("POST", Root, TRUE),
    Shape("GET", <<"health">>, TRUE),
    Shape("HEAD", <<"health">>, TRUE),
    Shape("POST", <<"health">>, TRUE),
    Shape("GET", <<"HEALTH">>, TRUE),
    Shape("GET", <<"health", "">>, TRUE),
    Shape("GET", <<"health", "live">>, TRUE),
    Shape("GET", <<"health">>, FALSE),
    Shape("GET", <<"other">>, TRUE),
    Shape("OPTIONS", <<"other">>, TRUE),
    Shape("POST", <<"other">>, FALSE),
    Shape("GET", <<"PDF", "chat">>, TRUE) }

\* One request to each of the three AI-gated prefixes.
ExhaustRequests ==
  { Shape("POST", <<"generate-plan">>, TRUE),
    Shape("POST", <<"curate-resources">>, TRUE),
    Shape("GET", <<"pdf", "chat">>, TRUE) }

\* The requests sent while the clock runs.
ClockRequests ==
  { Shape("GET", Root, TRUE),
    Shape("OPTIONS", Root, TRUE) }

Instances == {"global", "ai"}

Config ==
  [ global |-> [windowMs |-> WindowMs, max |-> GlobalMax, message |-> GlobalMessage],
    ai     |-> [windowMs |-> AIWindowMs, max |-> AIMax, message |-> AIMessage] ]

NoErr == [message |-> ""]
ParseError == [message |-> "Unexpected end of JSON input"]
HandlerError == [message |-> "AI service failed"]

\* ------------------------------------------------------------------- stack

JsonL == [kind |-> "json", name |-> "json", prefix |-> Root]
CorsL == [kind |-> "cors", name |-> "cors", prefix |-> Root]
LimiterL == [kind |-> "limit", name |-> "limiter", prefix |-> Root]
AiLimiterL(prefix) == [kind |-> "limit", name |-> "aiRateLimiter", prefix |-> prefix]
GetL(name, path) == [kind |-> "get", name |-> name, prefix |-> path]
RouterL(name, prefix) == [kind |-> "router", name |-> name, prefix |-> prefix]
ErrorL == [kind |-> "error", name |-> "errorHandler", prefix |-> Root]

\* Stack with the AI limiter mounted on paths the routers are not mounted on.
Stack_WrongMounts ==
  << JsonL, CorsL, LimiterL,
     AiLimiterL(<<"api", "curate-resources">>),
     AiLimiterL(<<"api", "generate-plan">>),
     AiLimiterL(<<"api", "pdf">>),
     GetL("root", Root), GetL("health", <<"health">>),
     RouterL("generatePlanRouter", <<"generate-plan">>),
     RouterL("curateResourcesRouter", <<"curate-resources">>),
     RouterL("pdfChatRouter", <<"pdf">>),
     ErrorL >>

\* Stack with the AI limiter mounted on two of the three prefixes.
Stack_TwoMounts ==
  << JsonL, CorsL, LimiterL,
     AiLimiterL(<<"curate-resources">>),
     AiLimiterL(<<"generate-plan">>),
     GetL("root", Root), GetL("health", <<"health">>),
     RouterL("generatePlanRouter", <<"generate-plan">>),
     RouterL("curateResourcesRouter", <<"curate-resources">>),
     RouterL("pdfChatRouter", <<"pdf">>),
     ErrorL >>

\* Stack with the global limiter registered after the AI limiter.
Stack_LimiterAfterAi ==
  << JsonL, CorsL,
     AiLimiterL(<<"curate-resources">>),
     AiLimiterL(<<"generate-plan">>),
     AiLimiterL(<<"pdf">>),
     LimiterL,
     GetL("root", Root), GetL("health", <<"health">>),
     RouterL("generatePlanRouter", <<"generate-plan">>),
     RouterL("curateResourcesRouter", <<"curate-resources">>),
     RouterL("pdfChatRouter", <<"pdf">>),
     ErrorL >>

\* Stack whose last middleware is not registered as an error handler.
Stack_NoErrorHandler ==
  << JsonL, CorsL, LimiterL,
     AiLimiterL(<<"curate-resources">>),
     AiLimiterL(<<"generate-plan">>),
     AiLimiterL(<<"pdf">>),
     GetL("root", Root), GetL("health", <<"health">>),
     RouterL("generatePlanRouter", <<"generate-plan">>),
     RouterL("curateResourcesRouter", <<"curate-resources">>),
     RouterL("pdfChatRouter", <<"pdf">>) >>

\* The layers in the order index.js registers them.
Stack ==
  << JsonL, CorsL, LimiterL,
     AiLimiterL(<<"curate-resources">>),
     AiLimiterL(<<"generate-plan">>),
     AiLimiterL(<<"pdf">>),
     GetL("root", Root), GetL("health", <<"health">>),
     RouterL("generatePlanRouter", <<"generate-plan">>),
     RouterL("curateResourcesRouter", <<"curate-resources">>),
     RouterL("pdfChatRouter", <<"pdf">>),
     ErrorL >>

InstanceOf(layer) == IF layer.name = "limiter" THEN "global" ELSE "ai"

\* The router is created without 'case sensitive routing': paths are
\* compared without regard to case.
Lower(seg) ==
  CASE seg = "HEALTH" -> "health"
    [] seg = "PDF" -> "pdf"
    [] OTHER -> seg

Norm(path) == [i \in 1..Len(path) |-> Lower(path[i])]

\* ... and without 'strict routing': a route matches with or without one
\* trailing slash (an empty last segment).
Trimmed(path) ==
  IF path # << >> /\ path[Len(path)] = ""
  THEN SubSeq(path, 1, Len(path) - 1)
  ELSE path

\* app.use(prefix, fn): fn runs for every path under the prefix.
UnderPrefix(prefix, path) ==
  /\ Len(path) >= Len(prefix)
  /\ SubSeq(Norm(path), 1, Len(prefix)) = prefix

\* Route that answers every method.
ExactRoute_AnyMethod(layer, method, path) ==
  Trimmed(Norm(path)) = layer.prefix

\* app.get(path, fn): fn runs for GET requests to that path, and for HEAD
\* requests as the route has no HEAD handler of its own.
ExactRoute(layer, method, path) ==
  /\ method \in {"GET", "HEAD"}
  /\ Trimmed(Norm(path)) = layer.prefix

\* The first segment of a path, where the mounts are told apart.
Mount(path) == IF path = << >> THEN "" ELSE Lower(path[1])

AIGated(path) ==
  \E i \in 1..Len(Stack) :
    /\ Stack[i].name = "aiRateLimiter"
    /\ UnderPrefix(Stack[i].prefix, path)

\* ------------------------------------------------------------------- state

VARIABLES
  now,        \* the clock, in ms
  hits,       \* hits[inst][key]: totalHits of the key's entry in the instance's store
  resetTime,  \* resetTime[inst][key]: end of the key's current window (0: no entry)
  history,    \* history[inst][key]: since when the key's window runs, how many of
              \* its requests the instance has seen in it and how many it let through
  req         \* the request being followed and what happened to it

vars == <<now, hits, resetTime, history, req>>

\* pc: idle, handler (suspended in a route group), done.  peer, xff: the
\* address of the connection and the X-Forwarded-For chain; key: req.ip.
\* acao: the Access-Control-Allow-Origin header of the response.  stages: the layers
\* that ran, in order.  sends: the writes of the response, in order.  total,
\* before: the count each limiter got from its store, and the entry's count
\* before that (0: limiter not consulted).  err: the error forwarded, if any.
Idle ==
  [ pc |-> "idle", key |-> "ipA", peer |-> "ipA", xff |-> << >>,
    method |-> "GET", path |-> Root, origin |-> NoOrigin, bodyOk |-> TRUE,
    acao |-> "", idx |-> 0,
    stages |-> << >>, sends |-> << >>, headersSent |-> FALSE, aborted |-> FALSE,
    total |-> [global |-> 0, ai |-> 0], before |-> [global |-> 0, ai |-> 0],
    err |-> NoErr ]

NoWindow == [since |-> -1, seen |-> 0, let |-> 0]

Init ==
  /\ now = 0
  /\ hits = [i \in Instances |-> [k \in Addrs |-> 0]]
  /\ resetTime = [i \in Instances |-> [k \in Addrs |-> 0]]
  /\ history = [i \in Instances |-> [k \in Addrs |-> NoWindow]]
  /\ req = Idle

\* ---------------------------------------------------------------- responses

NoBody == [ctype |-> "none"]
TextBody(t) == [ctype |-> "text", text |-> t]
JsonBody(fields) == [ctype |-> "json", json |-> fields]

\* res.status(code).send/json/end by a layer: one write of the response.
Send(q, by, status, body) ==
  [q EXCEPT !.sends = Append(@, [by |-> by, status |-> status, body |-> body]),
            !.headersSent = TRUE]

Enter(q, name) == [q EXCEPT !.stages = Append(@, name)]

\* What a layer does with the request: call next(), call next(err), end the
\* response, or keep the request while it works (a route group).
Go(s, go) == [s |-> s, go |-> go]

\* ------------------------------------------------------------------ limiter

\* Increment that restarts the key's window at every hit.
Increment_Sliding(s, inst, key, t) ==
  LET fresh == s.rt[inst][key] <= t
      count == (IF fresh THEN 0 ELSE s.h[inst][key]) + 1
  IN  [s EXCEPT !.h[inst][key] = count,
                !.rt[inst][key] = t + Config[inst].windowMs,
                !.q.total[inst] = count,
                !.q.before[inst] = s.h[inst][key]]

\* Increment on a store that keeps one entry for all keys.
Increment_Shared(s, inst, key, t) ==
  LET any == CHOOSE k \in Keys : \A j \in Keys : s.h[inst][k] >= s.h[inst][j]
      fresh == s.rt[inst][any] <= t
      count == (IF fresh THEN 0 ELSE s.h[inst][any]) + 1
      end == IF fresh THEN t + Config[inst].windowMs ELSE s.rt[inst][any]
  IN  [s EXCEPT !.h[inst] = [k \in Addrs |-> count],
                !.rt[inst] = [k \in Addrs |-> end],
                !.q.total[inst] = count,
                !.q.before[inst] = s.h[inst][any]]

\* Increment that stops counting once the key is over the limit.
Increment_Capped(s, inst, key, t) ==
  LET fresh == s.rt[inst][key] <= t
      old == IF fresh THEN 0 ELSE s.h[inst][key]
      count == IF old > Config[inst].max THEN old ELSE old + 1
  IN  [s EXCEPT !.h[inst][key] = count,
                !.rt[inst][key] = IF fresh THEN t + Config[inst].windowMs ELSE @,
                !.q.total[inst] = count,
                !.q.before[inst] = s.h[inst][key]]

\* MemoryStore.increment: an entry whose window has ended (or a new entry)
\* starts a new window at the current time, then the hit is counted.
Increment(s, inst, key, t) ==
  LET fresh == s.rt[inst][key] <= t
      count == (IF fresh THEN 0 ELSE s.h[inst][key]) + 1
  IN  [s EXCEPT !.h[inst][key] = count,
                !.rt[inst][key] = IF fresh THEN t + Config[inst].windowMs ELSE @,
                !.q.total[inst] = count,
                !.q.before[inst] = s.h[inst][key]]

\* Decision that already rejects the request that reaches the limit.
OverLimit_AtMax(inst, totalHits) == totalHits >= Config[inst].max

\* The middleware's decision on the count the store returned.
OverLimit(inst, totalHits) == totalHits > Config[inst].max

\* History, kept beside the store and never read by the code: a key's window
\* starts at its first request and ends windowMs later; the request is
\* counted in it, and counted as let through when the limiter called next().
Observe(s, inst, key, t, let) ==
  LET w == s.hist[inst][key]
      new == w.since < 0 \/ t >= w.since + Config[inst].windowMs
      base == IF new THEN [since |-> t, seen |-> 0, let |-> 0] ELSE w
  IN  [s EXCEPT !.hist[inst][key] =
         [since |-> base.since, seen |-> base.seen + 1,
          let |-> base.let + (IF let THEN 1 ELSE 0)]]

\* Decision that answers 429 and calls next() all the same.
LimitDecision_Continue(s, layer, inst, over) ==
  IF over
  THEN Go([s EXCEPT !.q = Send(@, layer.name, 429, TextBody(Config[inst].message))], "next")
  ELSE Go(s, "next")

\* What a limiter does once it has decided: answer 429 with its message and
\* stop, or call next().
LimitDecision(s, layer, inst, over) ==
  IF over
  THEN Go([s EXCEPT !.q = Send(@, layer.name, 429, TextBody(Config[inst].message))], "end")
  ELSE Go(s, "next")

\* Limiters where a rejection by the AI limiter gives the request's global
\* hit back.
LimitLayer_Refund(layer, s, t) ==
  LET inst == InstanceOf(layer)
      counted == Increment(s, inst, s.q.key, t)
      r == LimitDecision(counted, layer, inst, OverLimit(inst, counted.q.total[inst]))
      out == Observe(r.s, inst, s.q.key, t, r.go = "next")
  IN  IF inst = "ai" /\ r.go = "end"
      THEN Go([out EXCEPT !.h["global"][s.q.key] = @ - 1], r.go)
      ELSE Go(out, r.go)

\* A rateLimit middleware: count the hit, decide, respond or pass.
LimitLayer(layer, s, t) ==
  LET inst == InstanceOf(layer)
      counted == Increment(s, inst, s.q.key, t)
      r == LimitDecision(counted, layer, inst, OverLimit(inst, counted.q.total[inst]))
  IN  Go(Observe(r.s, inst, s.q.key, t, r.go = "next"), r.go)

\* ------------------------------------------------------------ other layers

\* express.json(): a body that does not parse is forwarded as an error.
JsonLayer(s, bodyOk) ==
  IF bodyOk THEN Go(s, "next")
  ELSE Go([s EXCEPT !.q.err = ParseError], "error")

\* Origin check that ignores case.
OriginAllowed_NoCase(origin) ==
  \/ origin \in AllowedOrigins
  \/ origin = "HTTP://LOCALHOST:3000"

\* cors, isOriginAllowed with an array of strings: the Origin header is one
\* of them, character for character.
OriginAllowed(origin) == origin \in AllowedOrigins

\* cors() that refuses a request whose origin is not allowed.
CorsLayer_Blocking(s) ==
  IF ~OriginAllowed(s.q.origin)
  THEN Go([s EXCEPT !.q.err = [message |-> "Not allowed by CORS"]], "error")
  ELSE IF s.q.method = "OPTIONS"
       THEN Go([s EXCEPT !.q = Send([@ EXCEPT !.acao = s.q.origin], "cors", 204, NoBody)],
               "end")
       ELSE Go([s EXCEPT !.q.acao = s.q.origin], "next")

\* cors(): the allowed origin is echoed in Access-Control-Allow-Origin, any
\* other gets no such header; a preflight is answered here, anything else
\* goes on.
CorsLayer(s) ==
  LET hdr == [s EXCEPT !.q.acao = IF OriginAllowed(s.q.origin) THEN s.q.origin ELSE ""]
  IN  IF s.q.method = "OPTIONS"
      THEN Go([hdr EXCEPT !.q = Send(@, "cors", 204, NoBody)], "end")
      ELSE Go(hdr, "next")

\* The payloads of the health handlers; the one of /health carries the time
\* of the response.
Payload == [status |-> "ok", message |-> "Mind Mentor API is running"]
Stamped(t) ==
  [status |-> "ok", message |-> "Mind Mentor API is running", timestamp |-> t]

\* Health handlers that both report the time.
HealthLayer_AllStamped(layer, s, t) ==
  Go([s EXCEPT !.q = Send(@, layer.name, 200, JsonBody(Stamped(t)))], "end")

\* Health handlers that set the status and never send.
HealthLayer_NoSend(layer, s, t) == Go(s, "end")

\* The two health handlers.
HealthLayer(layer, s, t) ==
  Go([s EXCEPT !.q = Send(@, layer.name, 200,
                          JsonBody(IF layer.name = "health" THEN Stamped(t)
                                   ELSE Payload))],
     "end")

\* Error handler that answers with a plain string.
ErrorHandler_Plain(s) ==
  IF s.q.headersSent
  THEN Go(s, "error")
  ELSE Go([s EXCEPT !.q = Send(@, "errorHandler", 500, TextBody("Something went wrong!"))],
          "end")

\* Error handler that does not look at res.headersSent.
ErrorHandler_NoCheck(s) ==
  Go([s EXCEPT !.q = Send(@, "errorHandler", 500,
                          JsonBody([error |-> "Something went wrong!",
                                    details |-> s.q.err.message]))],
     "end")

\* The error-handling middleware (err, req, res, next).
ErrorHandler(s) ==
  IF s.q.headersSent
  THEN Go(s, "error")
  ELSE Go([s EXCEPT !.q = Send(@, "errorHandler", 500,
                               JsonBody([error |-> "Something went wrong!",
                                         details |-> s.q.err.message]))],
          "end")

\* Express's final handler, after the last layer.
FinalHandler(s) ==
  LET in == [s EXCEPT !.q = [Enter(@, "final") EXCEPT !.pc = "done"]]
  IN  IF s.q.err = NoErr
      THEN [in EXCEPT !.q = Send(@, "final", 404, TextBody("Not Found"))]
      ELSE IF s.q.headersSent
           THEN [in EXCEPT !.q.aborted = TRUE]
           ELSE [in EXCEPT !.q = Send(@, "final", 500, TextBody("Internal Server Error"))]

\* -------------------------------------------------------------- the dispatch

\* Whether Express hands the request to the layer: error handlers only see
\* errors and nothing else does; the mount path or route must match.
Matches(layer, q) ==
  IF q.err # NoErr THEN layer.kind = "error"
  ELSE CASE layer.kind = "error" -> FALSE
         [] layer.kind = "get" -> ExactRoute(layer, q.method, q.path)
         [] OTHER -> UnderPrefix(layer.prefix, q.path)

Invoke(layer, s, t, bodyOk) ==
  CASE layer.kind = "json" -> JsonLayer(s, bodyOk)
    [] layer.kind = "cors" -> CorsLayer(s)
    [] layer.kind = "limit" -> LimitLayer(layer, s, t)
    [] layer.kind = "get" -> HealthLayer(layer, s, t)
    [] layer.kind = "router" -> Go(s, "wait")
    [] layer.kind = "error" -> ErrorHandler(s)

\* next() / next(err) from layer i-1: walk the stack from layer i.
RECURSIVE Run(_, _, _, _)
Run(i, s, t, bodyOk) ==
  IF i > Len(Stack) THEN FinalHandler(s)
  ELSE IF ~Matches(Stack[i], s.q) THEN Run(i + 1, s, t, bodyOk)
  ELSE
    LET r == Invoke(Stack[i], [s EXCEPT !.q = Enter(@, Stack[i].name)], t, bodyOk)
    IN  CASE r.go \in {"next", "error"} -> Run(i + 1, r.s, t, bodyOk)
          [] r.go = "end" -> [r.s EXCEPT !.q.pc = "done"]
          [] r.go = "wait" -> [r.s EXCEPT !.q.pc = "handler", !.q.idx = i]

\* ------------------------------------------------------------------ actions

Store == [h |-> hits, rt |-> resetTime, hist |-> history, q |-> req]

Commit(s) ==
  /\ hits' = s.h
  /\ resetTime' = s.rt
  /\ history' = s.hist
  /\ req' = s.q

\* At most one key is the busy one, and no key checks far beyond its limit.
WithinTraffic(key, path) ==
  /\ hits["global"][key] < GlobalMax + MaxOver
  /\ \/ hits["global"][key] < MaxOther
     \/ \A other \in Addrs \ {key} : hits["global"][other] <= MaxOther
  /\ AIGated(path) => hits["ai"][key] < AIMax + MaxOver

\* proxy-addr's forwarded(): the connection's address, then the entries of
\* X-Forwarded-For from the last to the first.
Forwarded(peer, xff) ==
  <<peer>> \o [i \in 1..Len(xff) |-> xff[Len(xff) + 1 - i]]

\* req.ip that takes the first entry of X-Forwarded-For.
ClientIp_LeftMost(peer, xff) == IF xff = << >> THEN peer ELSE xff[1]

\* req.ip under 'trust proxy' n: the address at index i (from 0) of
\* forwarded() is trusted when i < n, and req.ip is the first address that
\* is not trusted, or the last of the list when all before it are trusted.
ClientIp(peer, xff) ==
  LET addrs == Forwarded(peer, xff)
      stop == {i \in 1..(Len(addrs) - 1) : ~((i - 1) < TrustHops)}
      cut == IF stop = {} THEN Len(addrs)
             ELSE CHOOSE i \in stop : \A j \in stop : i <= j
  IN  addrs[cut]

\* The request as it enters the stack.
Incoming(peer, xff, shape) ==
  [Idle EXCEPT !.pc = "run", !.key = ClientIp(peer, xff), !.peer = peer,
               !.xff = xff, !.method = shape.method, !.path = shape.path,
               !.origin = shape.origin, !.bodyOk = shape.bodyOk]

\* A request arrives over a connection from peer, with the forwarded-for
\* chain xff, and runs down the stack.
Arrive(peer, xff, shape) ==
  /\ req.pc \in {"idle", "done"}
  /\ WithinTraffic(ClientIp(peer, xff), shape.path)
  /\ Commit(Run(1, [Store EXCEPT !.q = Incoming(peer, xff, shape)], now, shape.bodyOk))
  /\ UNCHANGED now

\* A request arrives straight from the client key.
Request(key, shape) == Arrive(key, << >>, shape)

\* The route group answers the request.
HandlerRespond ==
  /\ req.pc = "handler"
  /\ req' = [Send(req, Stack[req.idx].name, 200, JsonBody([ok |-> "true"]))
               EXCEPT !.pc = "done"]
  /\ UNCHANGED <<now, hits, resetTime, history>>

\* The route group fails and forwards the failure with next(err); partial
\* says whether it had begun to send the response.
HandlerFail(partial) ==
  /\ req.pc = "handler"
  /\ LET q0 == IF partial
               THEN Send(req, Stack[req.idx].name, 200, JsonBody([ok |-> "partial"]))
               ELSE req
     IN  Commit(Run(req.idx + 1,
                    [Store EXCEPT !.q = [q0 EXCEPT !.err = HandlerError]], now, TRUE))
  /\ UNCHANGED now

\* No route of the group matches: the router calls next().
HandlerPass ==
  /\ req.pc = "handler"
  /\ Commit(Run(req.idx + 1, Store, now, TRUE))
  /\ UNCHANGED now

\* Time passes.
Tick ==
  /\ now + TickMs <= MaxTicks * TickMs
  /\ now' = now + TickMs
  /\ UNCHANGED <<hits, resetTime, history, req>>

\* One window of traffic of every kind.
Next ==
  \/ \E key \in Keys, shape \in Requests : Request(key, shape)
  \/ HandlerRespond
  \/ \E partial \in BOOLEAN : HandlerFail(partial)
  \/ HandlerPass

Spec == Init /\ [][Next]_vars

\* Requests that stop at the global limiter or before, over several windows.
NextClock ==
  \/ \E key \in Keys, shape \in ClockRequests : Request(key, shape)
  \/ Tick

SpecClock == Init /\ [][NextClock]_vars

\* A key that stays below the global limit.
Few(key) == hits["global"][key] < MaxFew

\* Requests with and without allowed origins.
NextCors ==
  \/ \E key \in Keys, shape \in CorsRequests : Few(key) /\ Request(key, shape)
  \/ HandlerRespond
  \/ \E partial \in BOOLEAN : HandlerFail(partial)
  \/ HandlerPass

SpecCors == Init /\ [][NextCors]_vars

\* Requests that end in the global limiter or in the error handler.
NextFail ==
  \E key \in Keys, shape \in FailRequests : Request(key, shape)

SpecFail == Init /\ [][NextFail]_vars

\* GET / over connections with and without a forwarded-for chain, a few
\* requests for each key.
NextIdentity ==
  \E peer \in Peers, xff \in Chains :
    /\ hits["global"][ClientIp(peer, xff)] < MaxOther
    /\ Arrive(peer, xff, Shape("GET", Root, TRUE))

SpecIdentity == Init /\ [][NextIdentity]_vars

\* One client asking for health paths, unknown paths and a handler path.
NextDispatch ==
  \/ \E shape \in DispatchRequests : Request("ipA", shape)
  \/ HandlerRespond

SpecDispatch == Init /\ [][NextDispatch]_vars

\* One client that goes from one AI-gated prefix to another with every
\* request, over several windows.
NextExhaust ==
  \/ \E shape \in ExhaustRequests :
       /\ Mount(shape.path) # Mount(req.path)
       /\ Request("ipA", shape)
  \/ HandlerRespond
  \/ \E partial \in BOOLEAN : HandlerFail(partial)
  \/ HandlerPass
  \/ Tick

SpecExhaust == Init /\ [][NextExhaust]_vars

\* ------------------------------------------------------------------ claims

HandlerGroups == {"generatePlanRouter", "curateResourcesRouter", "pdfChatRouter"}

Ran(name) == \E i \in 1..Len(req.stages) : req.stages[i] = name

Before(a, b) ==
  \E i, j \in 1..Len(req.stages) : i < j /\ req.stages[i] = a /\ req.stages[j] = b

LastStage == IF req.stages = << >> THEN "" ELSE req.stages[Len(req.stages)]

RejectedBy(name) ==
  \E j \in 1..Len(req.sends) : req.sends[j].by = name /\ req.sends[j].status = 429

\* The place of the followed request among its key's requests in the key's
\* current window of the instance (meaningful once that limiter ran).
Ordinal(inst) == history[inst][req.key].seen

\* The route group had begun to send before the failure.
Partial == Len(req.sends) >= 1 /\ req.sends[1].by \in HandlerGroups

Rejection(name, inst) ==
  [by |-> name, status |-> 429, body |-> TextBody(Config[inst].message)]

\* C1: inside one global window of a key the global limiter lets each of the
\* key's first 100 requests through and answers the 101st (and later ones)
\* with 429; no key ever has more than 100 requests let through in its
\* current window, whatever the other keys send in between.
C1_GlobalThreshold ==
  /\ \A k \in Keys : history["global"][k].let <= GlobalMax
  /\ Ran("limiter") =>
       /\ Ordinal("global") \in 1..GlobalMax =>
            ~RejectedBy("limiter") /\ LastStage # "limiter"
       /\ Ordinal("global") > GlobalMax =>
            req.sends = << Rejection("limiter", "global") >>

C1_Witness ==
  /\ Ran("limiter")
  /\ Ordinal("global") = GlobalMax + 1
  /\ req.sends = << Rejection("limiter", "global") >>
  /\ history["global"][req.key].let = GlobalMax
  /\ \E k \in Keys \ {req.key} : history["global"][k].seen > 0

\* C2: a request that reaches a route group has gone through the CORS
\* filter, then the global limiter, then the AI limiter, in that order, and
\* both limiters let it through; no route group runs for a rejected request.
C2_HandlerAfterChecks ==
  \A d \in 1..Len(req.stages) :
    req.stages[d] \in HandlerGroups =>
      /\ \E a, b, c \in 1..d :
           /\ a < b /\ b < c /\ c < d
           /\ req.stages[a] = "cors"
           /\ req.stages[b] = "limiter"
           /\ req.stages[c] = "aiRateLimiter"
      /\ Ordinal("global") \in 1..GlobalMax
      /\ Ordinal("ai") \in 1..AIMax
      /\ \A j \in 1..Len(req.sends) : req.sends[j].status # 429

C2_Witness ==
  /\ req.pc = "handler"
  /\ Ordinal("ai") = AIMax
  /\ Ordinal("global") > AIMax

\* C3: every request runs CORS, then the global limiter, then (on an
\* AI-gated path) the AI limiter, and skips one of them only when an earlier
\* one answered it (a preflight answer, a limiter rejection); a failure in a
\* layer registered before the CORS filter does not let it bypass them.
C3_NoStageSkipped ==
  req.pc # "idle" =>
    /\ Ran("cors")
    /\ req.method # "OPTIONS" => Before("cors", "limiter")
    /\ (req.method # "OPTIONS" /\ ~RejectedBy("limiter") /\ AIGated(req.path)) =>
         Before("limiter", "aiRateLimiter")
    /\ \A g \in HandlerGroups : Ran(g) => Before("aiRateLimiter", g)

\* C4: the global counter of a key equals the number of the key's requests
\* since the first request of its current window, and the window ends
\* windowMs after that first request; so the first request after the window
\* has elapsed is counted as 1 and let through, also for a key that was
\* being rejected.
C4_WindowReset ==
  /\ \A k \in Keys :
       /\ hits["global"][k] = history["global"][k].seen
       /\ resetTime["global"][k] =
            IF history["global"][k].since < 0 THEN 0
            ELSE history["global"][k].since + WindowMs
  /\ (Ran("limiter") /\ Ordinal("global") = 1) =>
       ~RejectedBy("limiter") /\ req.total["global"] = 1

C4_Witness ==
  /\ Ran("limiter")
  /\ req.before["global"] > GlobalMax
  /\ req.total["global"] = 1
  /\ Ordinal("global") = 1
  /\ req.sends # << >> /\ req.sends[1].status = 200
  /\ now >= WindowMs

\* C5: a request of one key leaves the entries of every other key unchanged
\* in both limiter instances, and each limiter's decision on a request
\* depends on nothing but the number of requests its own key has made in
\* its own window.
C5_Frame ==
  \A b \in Keys :
    req'.key # b =>
      \A i \in Instances :
        /\ hits'[i][b] = hits[i][b]
        /\ resetTime'[i][b] = resetTime[i][b]

C5_OwnCount ==
  /\ \A i \in Instances, k \in Keys : hits[i][k] = history[i][k].seen
  /\ Ran("limiter") => (RejectedBy("limiter") <=> Ordinal("global") > GlobalMax)
  /\ Ran("aiRateLimiter") => (RejectedBy("aiRateLimiter") <=> Ordinal("ai") > AIMax)

C5_KeyIndependence == [][C5_Frame]_vars /\ []C5_OwnCount

C5_Witness ==
  /\ \E a \in Keys \ {req.key} : hits["ai"][a] > AIMax /\ hits["global"][a] > AIMax
  /\ Ran("aiRateLimiter")
  /\ ~RejectedBy("aiRateLimiter")
  /\ hits["ai"][req.key] = 1

\* C6: a request the AI limiter lets through was let through by the global
\* limiter before it, and a request the global limiter rejected never
\* reaches the AI limiter (nor its counter).
C6_AiAfterGlobal ==
  /\ (Ran("aiRateLimiter") /\ ~RejectedBy("aiRateLimiter")) =>
       /\ Before("limiter", "aiRateLimiter")
       /\ ~RejectedBy("limiter")
       /\ Ordinal("global") <= GlobalMax
  /\ RejectedBy("limiter") => ~Ran("aiRateLimiter") /\ req.total["ai"] = 0

\* Let through by the global limiter and rejected by the AI limiter, the two
\* counters of the key being different.
C6_Witness ==
  /\ Before("limiter", "aiRateLimiter")
  /\ ~RejectedBy("limiter")
  /\ RejectedBy("aiRateLimiter")
  /\ hits["global"][req.key] # hits["ai"][req.key]

\* C7: a request over the limit of either limiter ends in that limiter: one
\* response, 429 with the limiter's message, and no later layer (router,
\* route group, error handler, final handler) runs.
C7_RejectionEndsPipeline ==
  \A inst \in Instances :
    LET name == IF inst = "global" THEN "limiter" ELSE "aiRateLimiter"
    IN  (Ran(name) /\ Ordinal(inst) > Config[inst].max) =>
          /\ req.pc = "done"
          /\ req.sends = << Rejection(name, inst) >>
          /\ LastStage = name

C7_Witness ==
  /\ RejectedBy("limiter")
  /\ AIGated(req.path)
  /\ LastStage = "limiter"
  /\ hits["ai"][req.key] > AIMax

\* C8: a route group's failure forwarded before anything was sent yields
\* exactly one response: 500 with the JSON body {error, details}.
C8_BoundaryResponse ==
  (req.err = HandlerError /\ ~Partial) =>
    /\ req.pc = "done"
    /\ req.sends =
         << [by |-> "errorHandler", status |-> 500,
             body |-> JsonBody([error |-> "Something went wrong!",
                                details |-> HandlerError.message])] >>

C8_Witness ==
  /\ req.err = HandlerError
  /\ ~Partial
  /\ Len(req.sends) = 1
  /\ req.sends[1].status = 500

\* C9: the error handler writes only to a response nothing was sent on; for
\* a response already begun it passes the error on to the final handler and
\* there is no second write.
C9_NoDoubleSend ==
  /\ \A j \in 1..Len(req.sends) : req.sends[j].by = "errorHandler" => j = 1
  /\ (req.err # NoErr /\ Partial) =>
       /\ Before("errorHandler", "final")
       /\ Len(req.sends) = 1
       /\ req.aborted

C9_Witness ==
  /\ req.err # NoErr
  /\ Partial
  /\ Ran("errorHandler")
  /\ req.pc = "done"

\* C10: every OPTIONS request is answered by the CORS filter with 204 and no
\* body, and neither limiter, no router and no handler runs for it.
C10_PreflightAnswered ==
  (req.pc # "idle" /\ req.method = "OPTIONS") =>
    /\ req.pc = "done"
    /\ req.sends = << [by |-> "cors", status |-> 204, body |-> NoBody] >>
    /\ LastStage = "cors"
    /\ req.total = [global |-> 0, ai |-> 0]

\* C10, the part that holds: no OPTIONS request changes a limiter counter or
\* reaches a limiter, a router or a handler.
C10_PreflightFrame ==
  [][req'.method = "OPTIONS" =>
       /\ hits' = hits /\ resetTime' = resetTime
       /\ \A i \in 1..Len(req'.stages) :
            req'.stages[i] \in {"json", "cors", "errorHandler"}]_vars

\* C11: a request whose Origin is absent or is not, character for character,
\* one of the five allowed origins gets no Access-Control-Allow-Origin
\* header, whatever its path and method; and it is treated exactly as the
\* same request with an allowed origin: same layers, same response, same
\* counters.
C11_NoHeader == req.origin \notin AllowedOrigins => req.acao = ""

C11_SameAsAllowed ==
  (req.pc \in {"idle", "done"} /\ req'.origin \notin AllowedOrigins) =>
    LET shape == [method |-> req'.method, path |-> req'.path,
                  bodyOk |-> req'.bodyOk, origin |-> "http://localhost:3000"]
        twin == Run(1, [Store EXCEPT !.q = Incoming(req'.peer, req'.xff, shape)],
                    now, req'.bodyOk)
    IN  /\ hits' = twin.h
        /\ resetTime' = twin.rt
        /\ [req' EXCEPT !.origin = twin.q.origin, !.acao = twin.q.acao] = twin.q

C11_DefaultDenyNonBlocking == []C11_NoHeader /\ [][C11_SameAsAllowed]_vars

\* The allowed origin in capitals: no header, and the request is in its
\* route group.
C11_Witness ==
  /\ req.origin = "HTTP://LOCALHOST:3000"
  /\ req.acao = ""
  /\ req.pc = "handler"
  /\ Before("cors", "limiter")

\* C12 as stated: every 429 and every 500 response has a JSON body.
C12_AllFailuresJson ==
  \A j \in 1..Len(req.sends) :
    req.sends[j].status \in {429, 500} => req.sends[j].body.ctype = "json"

\* C12 as amended: every 500 of the error handler has the JSON body
\* {error, details}; the 429 of the global limiter has the configured message
\* string as its body, sent as text and not as JSON.
C12_FailureBodies ==
  \A j \in 1..Len(req.sends) :
    /\ req.sends[j].status = 500 =>
         /\ req.sends[j].by = "errorHandler"
         /\ req.sends[j].body.ctype = "json"
         /\ DOMAIN req.sends[j].body.json = {"error", "details"}
    /\ req.sends[j].status = 429 =>
         /\ req.sends[j].by = "limiter"
         /\ req.sends[j].body = TextBody(GlobalMessage)

C12_Witness ==
  /\ req.pc = "done"
  /\ req.sends = << Rejection("limiter", "global") >>
  /\ hits["global"][req.key] = GlobalMax + 1

\* C13 as stated: every GET / gets the same response, 200 with the fixed
\* payload, however often it is repeated.
C13_AlwaysSame ==
  (req.pc = "done" /\ req.method = "GET" /\ req.path = Root) =>
    req.sends = << [by |-> "root", status |-> 200, body |-> JsonBody(Payload)] >>

\* C13 as amended: every GET / the global limiter lets through gets the same
\* response, 200 with the fixed payload; repeated from one client that is
\* the first 100 of a window, and the later ones of the window get 429.
C13_SameWhileAdmitted ==
  (req.pc = "done" /\ req.method = "GET" /\ req.path = Root /\ Ran("limiter")) =>
    req.sends =
      IF Ordinal("global") <= GlobalMax
      THEN << [by |-> "root", status |-> 200, body |-> JsonBody(Payload)] >>
      ELSE << Rejection("limiter", "global") >>

\* The 100th GET / of a window, in a later window than the first.
C13_Witness ==
  /\ req.method = "GET" /\ req.path = Root
  /\ Ordinal("global") = GlobalMax
  /\ req.sends = << [by |-> "root", status |-> 200, body |-> JsonBody(Payload)] >>
  /\ history["global"][req.key].since > 0

\* C14 as stated: the key of a request is the first (left-most) entry of its
\* forwarded-for chain when the chain is there and all its entries are
\* addresses, and the address of the connection otherwise.
C14_LeftMost ==
  req.pc # "idle" =>
    req.key =
      IF req.xff # << >> /\ (\A i \in 1..Len(req.xff) : req.xff[i] # "unknown")
      THEN req.xff[1]
      ELSE req.peer

\* C14 as amended: with one trusted hop the key of a request is the last
\* (right-most) entry of its forwarded-for chain when there is a chain,
\* whatever that entry holds, and the address of the connection when there
\* is none; the global limiter counts the request under that key and under
\* no other.
C14_Expected == IF req'.xff = << >> THEN req'.peer ELSE req'.xff[Len(req'.xff)]

C14_LastHop ==
  [][ /\ req'.key = C14_Expected
      /\ hits'["global"][C14_Expected] = hits["global"][C14_Expected] + 1
      /\ \A a \in Addrs \ {C14_Expected} : hits'["global"][a] = hits["global"][a] ]_vars

\* A chain of two entries behind the proxy: the last one is the key.
C14_Witness ==
  /\ req.peer = "proxy"
  /\ req.xff = <<"ipA", "ipB">>
  /\ req.key = "ipB"
  /\ hits["global"]["ipB"] = 1
  /\ hits["global"]["ipA"] = 0

C16_Check(k) ==
  LET w == history["global"][k]
      inside == w.since >= 0 /\ now < w.since + WindowMs
      checked == history'["global"][k] # w
      let == history'["global"][k].let = w.let + 1
  IN  (checked /\ inside) =>
        /\ hits'["global"][k] = hits["global"][k] + 1
        /\ resetTime'["global"][k] = resetTime["global"][k]
        /\ history'["global"][k].since = w.since
        /\ req'.key = k /\ req'.total.global = hits'["global"][k]
        /\ let <=> hits'["global"][k] <= GlobalMax
        /\ ~let <=> /\ req'.pc = "done"
                    /\ req'.sends = <<Rejection("limiter", "global")>>

C16_CountEveryCheck == [][\A k \in Keys : C16_Check(k)]_vars

\* A second rejection in the same window: the count went from 101 to 102
\* half a window after the window began, and the window still ends where it
\* did.
C16_Witness ==
  /\ req.before.global = GlobalMax + 1
  /\ req.total.global = GlobalMax + 2
  /\ RejectedBy("limiter")
  /\ now = TickMs
  /\ resetTime["global"][req.key] = WindowMs

\* C17: a request that the AI limiter rejects has added one to its key's
\* global count; a request that the global limiter rejects changes no AI
\* count, no AI window and is never seen by the AI limiter.
C17_Arrival ==
  LET rejected(name) ==
        \E j \in 1..Len(req'.sends) :
          req'.sends[j].by = name /\ req'.sends[j].status = 429
      k == req'.key
  IN  req.pc \in {"idle", "done"} =>
        /\ rejected("aiRateLimiter") =>
              /\ hits'["global"][k] = hits["global"][k] + 1
              /\ req'.total.global = hits'["global"][k]
              /\ history'["global"][k].let = history["global"][k].let + 1
        /\ rejected("limiter") =>
              /\ hits'["ai"] = hits["ai"]
              /\ resetTime'["ai"] = resetTime["ai"]
              /\ history'["ai"] = history["ai"]
              /\ req'.total.ai = 0

C17_ChainedOneWay == [][C17_Arrival]_vars

\* A request rejected by the AI limiter and counted by the global one.
C17_Witness ==
  /\ RejectedBy("aiRateLimiter")
  /\ req.total.ai = AIMax + 1
  /\ req.total.global = req.before.global + 1
  /\ req.total.global > req.total.ai

\* C18: the three mounts share one AI limiter: a request to any of the three
\* prefixes that the global limiter lets through adds one to the same count
\* of its key, and is rejected exactly when that count exceeds the AI limit;
\* so once the key's count has reached the limit in a window, its request to
\* another prefix in the same window is rejected.
C18_Arrival ==
  LET k == req'.key
      w == history["ai"][k]
      inside == w.since >= 0 /\ now < w.since + AIWindowMs
      rejected == req'.sends = <<Rejection("aiRateLimiter", "ai")>>
  IN  (req.pc \in {"idle", "done"} /\ history' # history
         /\ Mount(req'.path) \in {"curate-resources", "generate-plan", "pdf"}
         /\ req'.total.global \in 1..GlobalMax) =>
        /\ hits'["ai"][k] = (IF inside THEN hits["ai"][k] ELSE 0) + 1
        /\ req'.total.ai = hits'["ai"][k]
        /\ rejected <=> hits'["ai"][k] > AIMax
        /\ (inside /\ hits["ai"][k] >= AIMax /\ req.key = k
              /\ Mount(req'.path) # Mount(req.path)) => rejected

C18_SharedQuota == [][C18_Arrival]_vars

\* The quota was used up on the other two prefixes; half a window later the
\* first request to /pdf is rejected.
C18_Witness ==
  /\ req.path = <<"pdf", "chat">>
  /\ req.before.ai = AIMax
  /\ RejectedBy("aiRateLimiter")
  /\ history["ai"][req.key].since = 0
  /\ now = TickMs

\* C19: a request to a path outside the three AI-gated prefixes changes no AI
\* count and goes through the global limiter: it adds one to its key's
\* global count, and is answered 429 by the limiter once the key's quota is
\* used up.  (Preflights, which the CORS filter answers first, are left
\* aside.)
C19_Arrival ==
  LET k == req'.key
  IN  (req.pc \in {"idle", "done"} /\ req' # req /\ req'.method # "OPTIONS"
         /\ Mount(req'.path) \notin {"curate-resources", "generate-plan", "pdf"}) =>
        /\ hits'["ai"] = hits["ai"]
        /\ hits'["global"][k] = hits["global"][k] + 1
        /\ hits["global"][k] >= GlobalMax =>
              req'.sends = <<Rejection("limiter", "global")>>

C19_CountedByGlobal == [][C19_Arrival]_vars

\* C20: a request that enters no handler group has, as soon as the chain
\* returns, exactly one response, written by the last layer that ran: 204
\* from the CORS filter, 429 from a limiter, 200 from a health handler, 404
\* from the final handler or 500 from the error handler; it is never left
\* open, never answered twice, and its connection is not torn down.
C20_OneResponse ==
  (req.pc # "idle" /\ \A g \in HandlerGroups : ~Ran(g)) =>
    /\ req.pc = "done"
    /\ ~req.aborted
    /\ Len(req.sends) = 1
    /\ req.sends[1].by = LastStage
    /\ <<req.sends[1].by, req.sends[1].status>> \in
         { <<"cors", 204>>, <<"limiter", 429>>, <<"aiRateLimiter", 429>>,
           <<"root", 200>>, <<"health", 200>>, <<"final", 404>>,
           <<"errorHandler", 500>> }

\* A request to a path nothing is mounted on: 404 at the end of the stack.
C20_Witness ==
  /\ req.pc = "done"
  /\ req.path = <<"other">>
  /\ req.stages = <<"json", "cors", "limiter", "final">>
  /\ Len(req.sends) = 1
  /\ req.sends[1].status = 404

====
